---- MODULE Spec2Model ----
(***************************************************************************)
(* FaviconX (src/faviconx/__main__.py): the icon table, the generator     *)
(* (FaviconGenerator), the metadata emitter (HTMLGenerator) and the CLI    *)
(* entry point (main), as a state machine.                                 *)
(*                                                                         *)
(* Strings that the code takes apart (filenames, the prefix) are sequences *)
(* of one-character strings; strings that the code only compares (sizes,   *)
(* tiers, option names) are TLA+ strings.  The size strings spell the      *)
(* multiplication sign of the source as "x".                               *)
(***************************************************************************)
EXTENDS Integers, Sequences, FiniteSets, TLC

VARIABLES
  entry,             \* how the code is entered: "cli", "api" or "get_filename"
  source_exists,     \* environment: the source path exists
  source_decodable,  \* environment: the source file decodes as an image
  option,            \* --option
  icon_status,       \* --icon-status, split at the commas
  prefix,            \* --prefix / FaviconGenerator(prefix=...)
  no_html,           \* --no-html (api: the caller does not run HTMLGenerator)
  icon_options,      \* FaviconGenerator.icon_options
  generated_icons,   \* FaviconGenerator.generated_icons
  idx,               \* position of the loop over ICON_SIZES (1-based)
  pc,                \* position of the process
  exit_code,         \* -1 while running, else the process's exit code
  dir_exists,        \* the output directory exists
  fs,                \* output directory: filename -> sequence of written chunks
  encoder_fails,     \* environment: table positions whose encode was seen to fail
  run,               \* 1 for the first invocation, 2 for the repeated one
  fs_first,          \* fs at the end of the first invocation
  exit_first,        \* exit code of the first invocation
  summary_printed,   \* print_summary_table ran in this invocation
  fn_icon,           \* entry "get_filename": the icon dict passed in
  fn_result          \* entry "get_filename": the returned filename (<<"?">> before)

vars ==
  << entry, source_exists, source_decodable, option, icon_status, prefix,
     no_html, icon_options, generated_icons, idx, pc, exit_code, dir_exists,
     fs, encoder_fails, run, fs_first, exit_first, summary_printed,
     fn_icon, fn_result >>

(***************************************************************************)
(* Bounds of the model.                                                    *)
(***************************************************************************)
\* At most this many items whose encoding fails in one environment.
MaxFailures == 1
\* At most this many comma-separated codes in a non-default --icon-status.
MaxStatusCodes == 1

(***************************************************************************)
(* Python string operations on character sequences.                        *)
(***************************************************************************)
\* str.startswith
StartsWith(s, p) ==
  /\ Len(s) >= Len(p)
  /\ SubSeq(s, 1, Len(p)) = p

\* str.endswith
EndsWith(s, p) ==
  /\ Len(s) >= Len(p)
  /\ SubSeq(s, Len(s) - Len(p) + 1, Len(s)) = p

\* str.find, 1-based; 0 when p does not occur in s (p non-empty)
RECURSIVE FindFrom(_, _, _)
FindFrom(s, p, i) ==
  IF i + Len(p) - 1 > Len(s) THEN 0
  ELSE IF SubSeq(s, i, i + Len(p) - 1) = p THEN i
  ELSE FindFrom(s, p, i + 1)

Find(s, p) ==
  FindFrom(s, p, 1)

\* the "in" operator on strings
Contains(s, p) ==
  Find(s, p) # 0

\* str.replace(old, new, 1): only the first occurrence is replaced
ReplaceFirst(s, old, new) ==
  LET i == Find(s, old)
  IN IF i = 0 THEN s
     ELSE SubSeq(s, 1, i - 1) \o new \o SubSeq(s, i + Len(old), Len(s))

FAVICON ==
  <<"f","a","v","i","c","o","n">>

INDEX_HTML ==
  <<"i","n","d","e","x",".","h","t","m","l">>

SITE_WEBMANIFEST ==
  <<"s","i","t","e",".","w","e","b","m","a","n","i","f","e","s","t">>

DOT_PNG ==
  <<".","p","n","g">>

APPLE ==
  <<"a","p","p","l","e">>

(***************************************************************************)
(* The icon matrix (the usage text is display-only and left out).          *)
(***************************************************************************)
IconMatrix ==
  <<
    [size |-> "ICO", option |-> "Required",
     filename |-> <<"f","a","v","i","c","o","n",".","i","c","o">>],
    [size |-> "16x16", option |-> "Required",
     filename |-> <<"f","a","v","i","c","o","n","-","1","6","x","1","6",".","p","n","g">>],
    [size |-> "SVG", option |-> "Required",
     filename |-> <<"f","a","v","i","c","o","n",".","s","v","g">>],
    [size |-> "32x32", option |-> "Recommended",
     filename |-> <<"f","a","v","i","c","o","n","-","3","2","x","3","2",".","p","n","g">>],
    [size |-> "48x48", option |-> "Optional",
     filename |-> <<"f","a","v","i","c","o","n","-","4","8","x","4","8",".","p","n","g">>],
    [size |-> "64x64", option |-> "Optional",
     filename |-> <<"f","a","v","i","c","o","n","-","6","4","x","6","4",".","p","n","g">>],
    [size |-> "57x57", option |-> "Legacy",
     filename |-> <<"f","a","v","i","c","o","n","-","5","7","x","5","7",".","p","n","g">>],
    [size |-> "72x72", option |-> "Legacy",
     filename |-> <<"f","a","v","i","c","o","n","-","7","2","x","7","2",".","p","n","g">>],
    [size |-> "96x96", option |-> "Optional",
     filename |-> <<"f","a","v","i","c","o","n","-","9","6","x","9","6",".","p","n","g">>],
    [size |-> "114x114", option |-> "Optional",
     filename |-> <<"f","a","v","i","c","o","n","-","1","1","4","x","1","1","4",".","p","n","g">>],
    [size |-> "120x120", option |-> "Recommended",
     filename |-> <<"f","a","v","i","c","o","n","-","1","2","0","x","1","2","0",".","p","n","g">>],
    [size |-> "128x128", option |-> "Optional",
     filename |-> <<"f","a","v","i","c","o","n","-","1","2","8","x","1","2","8",".","p","n","g">>],
    [size |-> "144x144", option |-> "Recommended",
     filename |-> <<"f","a","v","i","c","o","n","-","1","4","4","x","1","4","4",".","p","n","g">>],
    [size |-> "150x150", option |-> "Optional",
     filename |-> <<"f","a","v","i","c","o","n","-","1","5","0","x","1","5","0",".","p","n","g">>],
    [size |-> "152x152", option |-> "Recommended",
     filename |-> <<"f","a","v","i","c","o","n","-","1","5","2","x","1","5","2",".","p","n","g">>],
    [size |-> "167x167", option |-> "Recommended",
     filename |-> <<"f","a","v","i","c","o","n","-","1","6","7","x","1","6","7",".","p","n","g">>],
    [size |-> "180x180", option |-> "Required",
     filename |-> <<"f","a","v","i","c","o","n","-","1","8","0","x","1","8","0",".","p","n","g">>],
    [size |-> "192x192", option |-> "Required",
     filename |-> <<"f","a","v","i","c","o","n","-","1","9","2","x","1","9","2",".","p","n","g">>],
    [size |-> "256x256", option |-> "Optional",
     filename |-> <<"f","a","v","i","c","o","n","-","2","5","6","x","2","5","6",".","p","n","g">>],
    [size |-> "384x384", option |-> "Optional",
     filename |-> <<"f","a","v","i","c","o","n","-","3","8","4","x","3","8","4",".","p","n","g">>],
    [size |-> "512x512", option |-> "Required",
     filename |-> <<"f","a","v","i","c","o","n","-","5","1","2","x","5","1","2",".","p","n","g">>],
    [size |-> "1024x1024", option |-> "Optional",
     filename |-> <<"f","a","v","i","c","o","n","-","1","0","2","4","x","1","0","2","4",".","p","n","g">>]
  >>

\* the table with the 32x32 row carrying the filename of the 16x16 row
ICON_SIZES_copied_row ==
  [k \in 1..Len(IconMatrix) |->
     IF IconMatrix[k].size = "32x32"
     THEN [IconMatrix[k] EXCEPT !.filename = IconMatrix[k - 2].filename]
     ELSE IconMatrix[k]]

\* the module-level table that the generator and the summary iterate over
ICON_SIZES ==
  IconMatrix

Tiers ==
  {"Required", "Recommended", "Optional", "Legacy"}

\* should_generate without its wildcard branch
should_generate_no_wildcard(icon, options) ==
  icon.option \in options

\* FaviconGenerator.should_generate
should_generate(icon, options) ==
  IF "all" \in options THEN TRUE
  ELSE icon.option \in options

\* get_filename without its startswith guard
get_filename_unguarded(icon, pfx) ==
  ReplaceFirst(icon.filename, FAVICON, pfx)

\* get_filename that keeps only the extension after the prefix
get_filename_extension_only(icon, pfx) ==
  pfx \o SubSeq(icon.filename, Len(icon.filename) - 3, Len(icon.filename))

\* FaviconGenerator.get_filename
get_filename(icon, pfx) ==
  IF StartsWith(icon.filename, FAVICON)
  THEN ReplaceFirst(icon.filename, FAVICON, pfx)
  ELSE icon.filename

(***************************************************************************)
(* main: the tier selection.                                               *)
(***************************************************************************)
OptionChoices ==
  {"required", "recommended", "required-recommended", "optional", "all"}

option_map(o) ==
  CASE o = "required" -> {"Required"}
    [] o = "recommended" -> {"Required", "Recommended"}
    [] o = "required-recommended" -> {"Required", "Recommended"}
    [] o = "optional" -> {"Required", "Recommended", "Optional"}
    [] o = "all" -> {"Required", "Recommended", "Optional", "Legacy"}

\* s.strip().upper() on the codes of the model; " rc" stands for a code
\* written in lower case with surrounding blanks
StripUpper(s) ==
  IF s = " rc" THEN "RC" ELSE s

\* status_to_option.get(code, 'Required')
status_to_option(code) ==
  CASE code = "R" -> "Required"
    [] code = "RC" -> "Recommended"
    [] code = "O" -> "Optional"
    [] code = "L" -> "Legacy"
    [] OTHER -> "Required"

\* the set "options" that main hands to FaviconGenerator
main_options(o, status) ==
  IF o # "all"
  THEN option_map(o)
  ELSE {status_to_option(StripUpper(status[i])) : i \in 1..Len(status)}

DefaultIconStatus ==
  <<"R", "RC", "O", "L">>

DefaultPrefix ==
  <<"i","c","o","n">>

(***************************************************************************)
(* The file system and the encoders' output.                               *)
(***************************************************************************)
\* a write in append mode
WriteFileAppend(f, name, data) ==
  [n \in (DOMAIN f) \cup {name} |->
     IF n = name
     THEN (IF name \in DOMAIN f THEN f[name] ELSE << >>) \o <<data>>
     ELSE f[n]]

\* open(path, 'w') / Image.save: the file holds exactly what was written
WriteFile(f, name, data) ==
  [n \in (DOMAIN f) \cup {name} |-> IF n = name THEN <<data>> ELSE f[n]]

\* generate_ico_favicon: three fixed sizes in one bundle
IcoData ==
  [format |-> "ICO", sizes |-> <<"16x16", "32x32", "48x48">>]

\* generate_svg_favicon: the raster source embedded in a 32x32 viewport
SvgData ==
  [format |-> "SVG", viewport |-> "32x32"]

\* generate_png_favicon: the source resized to the target size
PngData(size) ==
  [format |-> "PNG", size |-> size]

\* load_source_image that hands back an image for a missing path
LoadOutcomeIgnoresMissing ==
  IF source_exists /\ ~source_decodable THEN "decode_error"
  ELSE "ok"

\* load_source_image, as seen by generate_all_favicons
LoadOutcome ==
  IF ~source_exists THEN "not_found"
  ELSE IF ~source_decodable THEN "decode_error"
  ELSE "ok"

(***************************************************************************)
(* HTMLGenerator.                                                          *)
(***************************************************************************)
\* the apple-touch-icon size list with the two manifest sizes added
AppleSizesAndManifest ==
  {"180x180", "167x167", "152x152", "120x120", "57x57", "72x72",
   "114x114", "144x144", "150x150", "192x192", "512x512"}

AppleSizes ==
  {"180x180", "167x167", "152x152", "120x120", "57x57", "72x72",
   "114x114", "144x144", "150x150"}

ManifestSizes ==
  {"192x192", "512x512"}

\* the classification with the 192x192/512x512 rule tried before the apple rule
LinkTagPngFirst(icon) ==
  LET size == icon.size
      filename == icon.actual_filename
  IN IF size = "ICO"
     THEN << [rel |-> "icon", type |-> "image/x-icon", sizes |-> "", href |-> filename] >>
     ELSE IF size = "SVG"
     THEN << [rel |-> "icon", type |-> "image/svg+xml", sizes |-> "", href |-> filename] >>
     ELSE IF size \in {"192x192", "512x512"}
     THEN << [rel |-> "icon", type |-> "image/png", sizes |-> size, href |-> filename] >>
     ELSE IF Contains(filename, APPLE) \/ size \in {"180x180", "167x167", "152x152",
                "120x120", "57x57", "72x72", "114x114", "144x144", "150x150"}
     THEN << [rel |-> "apple-touch-icon", type |-> "", sizes |-> size, href |-> filename] >>
     ELSE IF EndsWith(filename, DOT_PNG)
     THEN << [rel |-> "icon", type |-> "image/png", sizes |-> size, href |-> filename] >>
     ELSE << >>

\* the link tag of one generated icon; <<>> when no branch matches
LinkTag(icon) ==
  LET size == icon.size
      filename == icon.actual_filename
  IN IF size = "ICO"
     THEN << [rel |-> "icon", type |-> "image/x-icon", sizes |-> "", href |-> filename] >>
     ELSE IF size = "SVG"
     THEN << [rel |-> "icon", type |-> "image/svg+xml", sizes |-> "", href |-> filename] >>
     ELSE IF Contains(filename, APPLE) \/ size \in AppleSizes
     THEN << [rel |-> "apple-touch-icon", type |-> "", sizes |-> size, href |-> filename] >>
     ELSE IF size \in ManifestSizes
     THEN << [rel |-> "icon", type |-> "image/png", sizes |-> size, href |-> filename] >>
     ELSE IF EndsWith(filename, DOT_PNG)
     THEN << [rel |-> "icon", type |-> "image/png", sizes |-> size, href |-> filename] >>
     ELSE << >>

\* generate_html without its "generated" check
RECURSIVE meta_tags_of_all(_)
meta_tags_of_all(icons) ==
  IF icons = << >> THEN << >>
  ELSE LinkTag(Head(icons)) \o meta_tags_of_all(Tail(icons))

\* the loop of generate_html over generated_icons
RECURSIVE meta_tags(_)
meta_tags(icons) ==
  IF icons = << >> THEN << >>
  ELSE IF ~Head(icons).generated THEN meta_tags(Tail(icons))
  ELSE LinkTag(Head(icons)) \o meta_tags(Tail(icons))

\* generate_webmanifest without its "generated" check
RECURSIVE manifest_icons_of_all(_)
manifest_icons_of_all(icons) ==
  IF icons = << >> THEN << >>
  ELSE IF Head(icons).size \in ManifestSizes
  THEN << [src |-> Head(icons).actual_filename, sizes |-> Head(icons).size,
           type |-> "image/png"] >> \o manifest_icons_of_all(Tail(icons))
  ELSE manifest_icons_of_all(Tail(icons))

\* the loop of generate_webmanifest over generated_icons
RECURSIVE manifest_icons(_)
manifest_icons(icons) ==
  IF icons = << >> THEN << >>
  ELSE IF ~Head(icons).generated THEN manifest_icons(Tail(icons))
  ELSE IF Head(icons).size \in ManifestSizes
  THEN << [src |-> Head(icons).actual_filename, sizes |-> Head(icons).size,
           type |-> "image/png"] >> \o manifest_icons(Tail(icons))
  ELSE manifest_icons(Tail(icons))

HtmlData(icons) ==
  [format |-> "HTML", meta_tags |-> meta_tags(icons)]

ManifestData(icons) ==
  [format |-> "JSON", icons |-> manifest_icons(icons)]

(***************************************************************************)
(* Inputs.                                                                 *)
(***************************************************************************)
Prefixes ==
  {DefaultPrefix, APPLE}

CodeOrder ==
  <<"R", "RC", "O", "L", "ALL", " rc">>

\* the values of --icon-status: the default, and the lists of up to
\* MaxStatusCodes codes; main turns the list into a set, so the lists are
\* taken up to order and repetition
IconStatusValues ==
  {DefaultIconStatus} \cup
  UNION { { [k \in 1..n |-> CodeOrder[ix[k]]] :
              ix \in { s \in [1..n -> 1..Len(CodeOrder)] :
                         \A a, b \in 1..n : a < b => s[a] < s[b] } } :
          n \in 1..MaxStatusCodes }

\* icon dicts and prefixes for direct calls of get_filename
FnFilenames ==
  { <<"f","a","v","i","c","o","n","-","3","2","x","3","2",".","p","n","g">>,
    <<"f","a","v","i","c","o","n",".","i","c","o">>,
    <<"f","a","v","i","c","o","n">>,
    <<"f","a","v","i","c","o","n","-","f","a","v","i","c","o","n",".","p","n","g">>,
    <<"m","y","-","f","a","v","i","c","o","n",".","p","n","g">>,
    <<"x","f","a","v","i","c","o","n">>,
    <<"l","o","g","o",".","p","n","g">>,
    <<"f","a","v",".","p","n","g">>,
    <<"F","a","v","i","c","o","n",".","i","c","o">>,
    << >> }

FnPrefixes ==
  Prefixes \cup {<<"t","e","s","t","i","c","o">>, FAVICON, << >>, <<"x">>,
                 <<"m","y","-","f","a","v","i","c","o","n">>}

ApiIconOptions ==
  (SUBSET Tiers) \cup {{"all"}, {"all", "Legacy"}}

EmptyFs ==
  [n \in {} |-> << >>]

NotCalled ==
  <<"?">>

InitCommon ==
  /\ generated_icons = << >>
  /\ idx = 0
  /\ exit_code = -1
  /\ dir_exists = FALSE
  /\ fs = EmptyFs
  /\ encoder_fails = {}
  /\ run = 1
  /\ fs_first = EmptyFs
  /\ exit_first = -1
  /\ summary_printed = FALSE
  /\ fn_result = NotCalled

\* faviconx SOURCE_IMAGE OUTPUT_DIRECTORY [--no-html] [--icon-status ..]
\* [--prefix ..] [--option ..]; main reads --icon-status only when --option
\* is "all", so it is varied only there
InitCli ==
  /\ entry = "cli"
  /\ source_exists \in BOOLEAN
  /\ source_decodable \in (IF source_exists THEN BOOLEAN ELSE {FALSE})
  /\ option \in OptionChoices
  /\ icon_status \in IconStatusValues
  /\ option # "all" => icon_status = DefaultIconStatus
  /\ prefix \in Prefixes
  /\ no_html \in BOOLEAN
  /\ icon_options = {}
  /\ pc = "click"
  /\ fn_icon = [filename |-> << >>]
  /\ InitCommon

\* FaviconGenerator(source, out, icon_options, prefix).generate_all_favicons(),
\* then HTMLGenerator(out, generated_icons) as in example.py; icon_options is
\* any set of tiers (None gives the set of all four), or one holding "all"
InitApi ==
  /\ entry = "api"
  /\ source_exists \in BOOLEAN
  /\ source_decodable \in (IF source_exists THEN BOOLEAN ELSE {FALSE})
  /\ option = "all"
  /\ icon_status = DefaultIconStatus
  /\ prefix = DefaultPrefix
  /\ no_html = FALSE
  /\ icon_options \in ApiIconOptions
  /\ pc = "init"
  /\ fn_icon = [filename |-> << >>]
  /\ InitCommon

\* generator.get_filename(icon) on any icon dict
InitGetFilename ==
  /\ entry = "get_filename"
  /\ source_exists = TRUE
  /\ source_decodable = TRUE
  /\ option = "all"
  /\ icon_status = DefaultIconStatus
  /\ prefix \in FnPrefixes
  /\ no_html = FALSE
  /\ icon_options = Tiers
  /\ pc = "call"
  /\ fn_icon \in {[filename |-> f] : f \in FnFilenames}
  /\ InitCommon

Init ==
  \/ InitCli
  \/ InitApi
  \/ InitGetFilename

(***************************************************************************)
(* Actions.                                                                *)
(***************************************************************************)
args == << entry, source_exists, source_decodable, option, icon_status, prefix, no_html >>
history == << run, fs_first, exit_first >>
fnvars == << fn_icon, fn_result >>

\* the process ends with this exit code
Exit(code) ==
  /\ pc' = "done"
  /\ exit_code' = code

\* @click.argument('source_image', type=click.Path(exists=True)): a missing
\* path is a usage error (exit code 2) before main's body runs
click_validate ==
  /\ pc = "click"
  /\ IF source_exists
     THEN /\ pc' = "main"
          /\ UNCHANGED exit_code
     ELSE Exit(2)
  /\ UNCHANGED << args, icon_options, generated_icons, idx, dir_exists, fs,
                  encoder_fails, history, summary_printed, fnvars >>

\* main, up to the construction of the generator
main_select ==
  /\ pc = "main"
  /\ icon_options' = main_options(option, icon_status)
  /\ pc' = "init"
  /\ UNCHANGED << args, generated_icons, idx, exit_code, dir_exists, fs,
                  encoder_fails, history, summary_printed, fnvars >>

\* FaviconGenerator.__init__: mkdir(parents=True, exist_ok=True)
FaviconGenerator_init ==
  /\ pc = "init"
  /\ dir_exists' = TRUE
  /\ generated_icons' = << >>
  /\ pc' = "load"
  /\ UNCHANGED << args, icon_options, idx, exit_code, fs, encoder_fails,
                  history, summary_printed, fnvars >>

\* generate_all_favicons: image = self.load_source_image(); an exception
\* reaches the outer except, which exits with 1
load_source_image ==
  /\ pc = "load"
  /\ IF LoadOutcome = "ok"
     THEN /\ pc' = "generate"
          /\ idx' = 1
          /\ UNCHANGED exit_code
     ELSE /\ Exit(1)
          /\ UNCHANGED idx
  /\ UNCHANGED << args, icon_options, generated_icons, dir_exists, fs,
                  encoder_fails, history, summary_printed, fnvars >>

InLoop ==
  /\ pc = "generate"
  /\ idx <= Len(ICON_SIZES)

\* whether the encoder may succeed (TRUE) or fail (FALSE) on table entry i:
\* the same entry behaves the same way in both invocations
EncodeOutcomes(i) ==
  { ok \in BOOLEAN :
      /\ i \in encoder_fails => ~ok
      /\ (run = 2 /\ i \notin encoder_fails) => ok
      /\ ~ok => Cardinality(encoder_fails \cup {i}) <= MaxFailures }

\* icon_copy with "generated" and "actual_filename" (of the copied keys only
\* "size" and "option" are kept: nothing reads the others afterwards)
Result(icon, generated, filename) ==
  [size |-> icon.size, option |-> icon.option,
   generated |-> generated, actual_filename |-> filename]

\* the loop body for an entry that is not selected: continue
skip_icon ==
  /\ InLoop
  /\ ~should_generate(ICON_SIZES[idx], icon_options)
  /\ idx' = idx + 1
  /\ UNCHANGED << args, icon_options, generated_icons, pc, exit_code,
                  dir_exists, fs, encoder_fails, history, summary_printed, fnvars >>

\* the ICO/SVG branch with a cleanup of the output directory on failure
EncodeUnguardedCleansUp(icon, data) ==
  \E ok \in EncodeOutcomes(idx) :
    LET filename == get_filename(icon, prefix)
    IN IF ok
       THEN /\ fs' = WriteFile(fs, filename, data)
            /\ generated_icons' = Append(generated_icons, Result(icon, TRUE, filename))
            /\ idx' = idx + 1
            /\ UNCHANGED << pc, exit_code, encoder_fails >>
       ELSE /\ encoder_fails' = encoder_fails \cup {idx}
            /\ Exit(1)
            /\ fs' = EmptyFs
            /\ UNCHANGED << generated_icons, idx >>

\* the loop body for a selected ICO or SVG entry: the encoder is called
\* outside any inner try, so its failure ends generate_all_favicons
EncodeUnguarded(icon, data) ==
  \E ok \in EncodeOutcomes(idx) :
    LET filename == get_filename(icon, prefix)
    IN IF ok
       THEN /\ fs' = WriteFile(fs, filename, data)
            /\ generated_icons' = Append(generated_icons, Result(icon, TRUE, filename))
            /\ idx' = idx + 1
            /\ UNCHANGED << pc, exit_code, encoder_fails >>
       ELSE /\ encoder_fails' = encoder_fails \cup {idx}
            /\ Exit(1)
            /\ UNCHANGED << fs, generated_icons, idx >>

\* the loop body for a selected pixel-size entry: a failure of the resize
\* or the save is swallowed and the entry is recorded as not generated
EncodeGuarded(icon, data) ==
  \E ok \in EncodeOutcomes(idx) :
    LET filename == get_filename(icon, prefix)
    IN /\ IF ok
          THEN /\ fs' = WriteFile(fs, filename, data)
               /\ UNCHANGED encoder_fails
          ELSE /\ encoder_fails' = encoder_fails \cup {idx}
               /\ UNCHANGED fs
       /\ generated_icons' = Append(generated_icons, Result(icon, ok, filename))
       /\ idx' = idx + 1
       /\ UNCHANGED << pc, exit_code >>

generate_ico_favicon ==
  /\ InLoop
  /\ should_generate(ICON_SIZES[idx], icon_options)
  /\ ICON_SIZES[idx].size = "ICO"
  /\ EncodeUnguarded(ICON_SIZES[idx], IcoData)
  /\ UNCHANGED << args, icon_options, dir_exists, history, summary_printed, fnvars >>

generate_svg_favicon ==
  /\ InLoop
  /\ should_generate(ICON_SIZES[idx], icon_options)
  /\ ICON_SIZES[idx].size = "SVG"
  /\ EncodeUnguarded(ICON_SIZES[idx], SvgData)
  /\ UNCHANGED << args, icon_options, dir_exists, history, summary_printed, fnvars >>

generate_png_favicon ==
  /\ InLoop
  /\ should_generate(ICON_SIZES[idx], icon_options)
  /\ ICON_SIZES[idx].size \notin {"ICO", "SVG"}
  /\ EncodeGuarded(ICON_SIZES[idx], PngData(ICON_SIZES[idx].size))
  /\ UNCHANGED << args, icon_options, dir_exists, history, summary_printed, fnvars >>

\* main running the emitter whatever --no-html says
EmitterRunsAlways ==
  TRUE

\* main: "if not no_html:" guards the two HTMLGenerator calls
EmitterRuns ==
  ~no_html

\* the loop is over: back in the caller, which runs the emitter unless told not to
generation_complete ==
  /\ pc = "generate"
  /\ idx > Len(ICON_SIZES)
  /\ IF EmitterRuns
     THEN /\ pc' = "html"
          /\ UNCHANGED exit_code
     ELSE IF entry = "cli"
     THEN /\ pc' = "summary"
          /\ UNCHANGED exit_code
     ELSE Exit(0)
  /\ UNCHANGED << args, icon_options, generated_icons, idx, dir_exists, fs,
                  encoder_fails, history, summary_printed, fnvars >>

\* HTMLGenerator.generate_html
generate_html ==
  /\ pc = "html"
  /\ fs' = WriteFile(fs, INDEX_HTML, HtmlData(generated_icons))
  /\ pc' = "manifest"
  /\ UNCHANGED << args, icon_options, generated_icons, idx, exit_code,
                  dir_exists, encoder_fails, history, summary_printed, fnvars >>

\* HTMLGenerator.generate_webmanifest
generate_webmanifest ==
  /\ pc = "manifest"
  /\ fs' = WriteFile(fs, SITE_WEBMANIFEST, ManifestData(generated_icons))
  /\ IF entry = "cli"
     THEN /\ pc' = "summary"
          /\ UNCHANGED exit_code
     ELSE Exit(0)
  /\ UNCHANGED << args, icon_options, generated_icons, idx, dir_exists,
                  encoder_fails, history, summary_printed, fnvars >>

\* FaviconGenerator.print_summary_table, then main returns
print_summary_table ==
  /\ pc = "summary"
  /\ summary_printed' = TRUE
  /\ Exit(0)
  /\ UNCHANGED << args, icon_options, generated_icons, idx, dir_exists, fs,
                  encoder_fails, history, fnvars >>

\* the same command is run once more on the same output directory
rerun ==
  /\ pc = "done"
  /\ run = 1
  /\ entry \in {"cli", "api"}
  /\ run' = 2
  /\ fs_first' = fs
  /\ exit_first' = exit_code
  /\ exit_code' = -1
  /\ pc' = IF entry = "cli" THEN "click" ELSE "init"
  /\ icon_options' = IF entry = "cli" THEN {} ELSE icon_options
  /\ generated_icons' = << >>
  /\ idx' = 0
  /\ summary_printed' = FALSE
  /\ UNCHANGED << args, dir_exists, fs, encoder_fails, fnvars >>

\* a direct call generator.get_filename(icon)
call_get_filename ==
  /\ pc = "call"
  /\ fn_result' = get_filename(fn_icon, prefix)
  /\ pc' = "returned"
  /\ UNCHANGED << args, icon_options, generated_icons, idx, exit_code,
                  dir_exists, fs, encoder_fails, history, summary_printed, fn_icon >>

Next ==
  \/ click_validate
  \/ main_select
  \/ FaviconGenerator_init
  \/ load_source_image
  \/ skip_icon
  \/ generate_ico_favicon
  \/ generate_svg_favicon
  \/ generate_png_favicon
  \/ generation_complete
  \/ generate_html
  \/ generate_webmanifest
  \/ print_summary_table
  \/ rerun
  \/ call_get_filename

Spec ==
  Init /\ [][Next]_vars

(***************************************************************************)
(* Vocabulary of the properties.                                           *)
(***************************************************************************)
TableIndex ==
  1..Len(ICON_SIZES)

\* the entry belongs to the selection S
InSelection(icon, S) ==
  icon.option \in S \/ "all" \in S

\* the canonical name with its leading "favicon" replaced by the prefix p
EffectiveName(f, p) ==
  IF /\ Len(f) >= Len(FAVICON)
     /\ \A k \in 1..Len(FAVICON) : f[k] = FAVICON[k]
  THEN p \o [k \in 1..(Len(f) - Len(FAVICON)) |-> f[k + Len(FAVICON)]]
  ELSE f

\* the path of table entry i in the output directory
FileOf(i) ==
  EffectiveName(ICON_SIZES[i].filename, prefix)

\* the sizes of the selected entries among the first n of the table, in order
RECURSIVE SelectedSizes(_, _)
SelectedSizes(n, S) ==
  IF n <= 0 THEN << >>
  ELSE IF InSelection(ICON_SIZES[n], S)
  THEN Append(SelectedSizes(n - 1, S), ICON_SIZES[n].size)
  ELSE SelectedSizes(n - 1, S)

Min(a, b) ==
  IF a < b THEN a ELSE b

ProcessedSizes ==
  [k \in 1..Len(generated_icons) |-> generated_icons[k].size]

\* a generator run: the source was loaded
SourceValid ==
  source_exists /\ source_decodable

\* the generation pass of this invocation ran to its end
PassComplete ==
  \/ pc = "generate" /\ idx > Len(ICON_SIZES)
  \/ pc \in {"html", "manifest", "summary"}
  \/ pc = "done" /\ exit_code = 0

\* index.html has been written in this invocation
HtmlEmitted ==
  /\ ~no_html
  /\ \/ pc \in {"manifest", "summary"}
     \/ pc = "done" /\ exit_code = 0

\* site.webmanifest has been written in this invocation
ManifestEmitted ==
  /\ ~no_html
  /\ \/ pc = "summary"
     \/ pc = "done" /\ exit_code = 0

Last(s) ==
  s[Len(s)]

(***************************************************************************)
(* C1 (refuted by the code).                                               *)
(***************************************************************************)
\* C1: when an invocation whose source loaded has ended, every selected
\* entry has been recorded, with generated = FALSE exactly for the entries
\* whose encoding failed, and the run was not aborted (exit code 0).
C1_ItemFailureNeverAborts ==
  (entry \in {"cli", "api"} /\ pc = "done" /\ SourceValid)
    => /\ exit_code = 0
       /\ \A i \in TableIndex :
            InSelection(ICON_SIZES[i], icon_options)
              => \E k \in 1..Len(generated_icons) :
                   /\ generated_icons[k].size = ICON_SIZES[i].size
                   /\ generated_icons[k].generated = (i \notin encoder_fails)

(***************************************************************************)
(* C2.                                                                     *)
(***************************************************************************)
\* C2: the entries recorded so far are exactly the table entries before the
\* loop position whose tier is in icon_options (all of them when
\* icon_options holds "all"), each once and in table order; after a complete
\* pass that is the whole selected subsequence, empty for an empty selection.
C2_SelectedInTableOrder ==
  /\ ProcessedSizes = SelectedSizes(Min(idx - 1, Len(ICON_SIZES)), icon_options)
  /\ PassComplete => ProcessedSizes = SelectedSizes(Len(ICON_SIZES), icon_options)
  /\ (PassComplete /\ icon_options = {}) => generated_icons = << >>

\* a complete pass under the wildcard selection recorded the full table
C2_Witness ==
  /\ "all" \in icon_options
  /\ PassComplete
  /\ Len(generated_icons) = Len(ICON_SIZES)

(***************************************************************************)
(* C3.                                                                     *)
(***************************************************************************)
\* the icons array of the manifest on disk
ManifestIcons ==
  Last(fs[SITE_WEBMANIFEST]).icons

\* C3: once the manifest is written, its icons array holds an entry for a
\* table entry iff that entry is 192x192 or 512x512, is selected and its
\* encoding did not fail; no size occurs twice; each entry's src is the
\* entry's effective filename and its type is image/png.
C3_ManifestIconsExact ==
  ManifestEmitted
    => /\ SITE_WEBMANIFEST \in DOMAIN fs
       /\ \A i \in TableIndex :
            (\E k \in 1..Len(ManifestIcons) :
               ManifestIcons[k].sizes = ICON_SIZES[i].size)
              <=> /\ ICON_SIZES[i].size \in {"192x192", "512x512"}
                  /\ InSelection(ICON_SIZES[i], icon_options)
                  /\ i \notin encoder_fails
       /\ \A k \in 1..Len(ManifestIcons) :
            /\ ManifestIcons[k].type = "image/png"
            /\ \E i \in TableIndex :
                 /\ ICON_SIZES[i].size = ManifestIcons[k].sizes
                 /\ ManifestIcons[k].src = FileOf(i)
            /\ \A j \in 1..Len(ManifestIcons) :
                 ManifestIcons[j].sizes = ManifestIcons[k].sizes => j = k

\* a manifest written after the 192x192 encoding failed and the 512x512
\* one succeeded
C3_Witness ==
  /\ ManifestEmitted
  /\ \E i \in encoder_fails : ICON_SIZES[i].size = "192x192"
  /\ Len(ManifestIcons) = 1
  /\ ManifestIcons[1].sizes = "512x512"

(***************************************************************************)
(* C4.                                                                     *)
(***************************************************************************)
\* the link tags of index.html on disk
HtmlTags ==
  Last(fs[INDEX_HTML]).meta_tags

\* the effective filenames of the entries among the first n of the table
\* that are selected and whose encoding did not fail, in table order
RECURSIVE GeneratedFiles(_)
GeneratedFiles(n) ==
  IF n <= 0 THEN << >>
  ELSE IF InSelection(ICON_SIZES[n], icon_options) /\ n \notin encoder_fails
  THEN Append(GeneratedFiles(n - 1), FileOf(n))
  ELSE GeneratedFiles(n - 1)

\* the number of results recorded as generated
GeneratedCount ==
  Cardinality({k \in 1..Len(generated_icons) : generated_icons[k].generated})

\* C4: once index.html is written, its link tags are, in order, one per
\* result with generated = TRUE: as many tags as generated results, their
\* hrefs the effective filenames of the selected entries that were encoded,
\* in table order, and none for a failed or an unselected entry.
C4_OneTagPerGenerated ==
  HtmlEmitted
    => /\ INDEX_HTML \in DOMAIN fs
       /\ Len(HtmlTags) = GeneratedCount
       /\ [k \in 1..Len(HtmlTags) |-> HtmlTags[k].href]
            = GeneratedFiles(Len(ICON_SIZES))

\* index.html written after a pass with a failed and a generated entry
C4_Witness ==
  /\ HtmlEmitted
  /\ \E k \in 1..Len(generated_icons) : ~generated_icons[k].generated
  /\ \E k \in 1..Len(generated_icons) : generated_icons[k].generated
  /\ Len(HtmlTags) = Len(generated_icons) - 1

(***************************************************************************)
(* C5.                                                                     *)
(***************************************************************************)
\* C5: get_filename returns the name with only its leading "favicon"
\* replaced by the prefix, and a name that does not start with "favicon"
\* unchanged; with prefix "icon", favicon-32x32.png gives icon-32x32.png and
\* favicon.ico gives icon.ico; every icon file in the output directory
\* carries the effective name of a table entry.
C5_EffectiveFilename ==
  /\ pc = "returned"
       => /\ fn_result = EffectiveName(fn_icon.filename, prefix)
          /\ ~StartsWith(fn_icon.filename, FAVICON) => fn_result = fn_icon.filename
          /\ (/\ prefix = <<"i","c","o","n">>
              /\ fn_icon.filename
                   = <<"f","a","v","i","c","o","n","-","3","2","x","3","2",".","p","n","g">>)
               => fn_result = <<"i","c","o","n","-","3","2","x","3","2",".","p","n","g">>
          /\ (/\ prefix = <<"i","c","o","n">>
              /\ fn_icon.filename = <<"f","a","v","i","c","o","n",".","i","c","o">>)
               => fn_result = <<"i","c","o","n",".","i","c","o">>
  /\ DOMAIN fs \subseteq {FileOf(i) : i \in TableIndex}
                          \cup {INDEX_HTML, SITE_WEBMANIFEST}

\* get_filename returned a name holding "favicon" past its start unchanged
C5_Witness ==
  /\ pc = "returned"
  /\ fn_icon.filename = <<"m","y","-","f","a","v","i","c","o","n",".","p","n","g">>
  /\ prefix = <<"i","c","o","n">>
  /\ fn_result = fn_icon.filename

(***************************************************************************)
(* C6 (refuted by the code).                                               *)
(***************************************************************************)
\* the tiers the claim assigns to a value of --option
CumulativeTiers(o) ==
  CASE o = "required" -> {"Required"}
    [] o = "required-recommended" -> {"Required", "Recommended"}
    [] o = "optional" -> {"Required", "Recommended", "Optional"}
    [] o = "all" -> Tiers

\* C6: a finished CLI run on a valid source with no encoder failure exits
\* with 0 and has produced a file for exactly the entries whose tier --option
\* names cumulatively (required; required-recommended; optional; all).
C6_OptionSelectsCumulatively ==
  (/\ entry = "cli"
   /\ pc = "done"
   /\ SourceValid
   /\ encoder_fails = {}
   /\ option # "recommended")
    => /\ exit_code = 0
       /\ \A i \in TableIndex :
            FileOf(i) \in DOMAIN fs <=> ICON_SIZES[i].option \in CumulativeTiers(option)

(***************************************************************************)
(* C7 (refuted by the code).                                               *)
(***************************************************************************)
\* the tiers the help text assigns to a code of --icon-status
DocumentedTiers(code) ==
  CASE code = "R" -> {"Required"}
    [] code = "RC" -> {"Recommended"}
    [] code = "O" -> {"Optional"}
    [] code = "L" -> {"Legacy"}
    [] code = "ALL" -> Tiers

\* C7: a finished CLI run with --option all on a valid source with no
\* encoder failure has produced a file for every entry of every tier that a
\* code of --icon-status selects (R, RC, O, L; ALL selects every tier).
C7_StatusCodesSelectTiers ==
  (/\ entry = "cli"
   /\ pc = "done"
   /\ SourceValid
   /\ encoder_fails = {}
   /\ option = "all")
    => \A k \in 1..Len(icon_status) :
         \A i \in TableIndex :
           ICON_SIZES[i].option \in DocumentedTiers(StripUpper(icon_status[k]))
             => FileOf(i) \in DOMAIN fs

(***************************************************************************)
(* C8.                                                                     *)
(***************************************************************************)
\* C8: with --no-html neither index.html nor site.webmanifest is ever
\* written, and a finished run on a valid source with no encoder failure
\* exits with 0 having produced every selected icon file; without --no-html
\* a run that ends with exit code 0 has written both files, and in the first
\* run on an empty directory neither exists before the pass is complete.
C8_NoHtmlSkipsEmitter ==
  /\ no_html
       => /\ INDEX_HTML \notin DOMAIN fs
          /\ SITE_WEBMANIFEST \notin DOMAIN fs
  /\ (no_html /\ pc = "done" /\ SourceValid /\ encoder_fails = {})
       => /\ exit_code = 0
          /\ \A i \in TableIndex :
               InSelection(ICON_SIZES[i], icon_options) => FileOf(i) \in DOMAIN fs
  /\ (entry \in {"cli", "api"} /\ ~no_html /\ pc = "done" /\ exit_code = 0)
       => /\ INDEX_HTML \in DOMAIN fs
          /\ SITE_WEBMANIFEST \in DOMAIN fs
  /\ (run = 1 /\ (INDEX_HTML \in DOMAIN fs \/ SITE_WEBMANIFEST \in DOMAIN fs))
       => /\ PassComplete
          /\ pc # "generate"

\* a --no-html run that ended with exit code 0 and wrote the ICO bundle
C8_Witness ==
  /\ entry = "cli"
  /\ no_html
  /\ pc = "done"
  /\ exit_code = 0
  /\ run = 1
  /\ <<"i","c","o","n",".","i","c","o">> \in DOMAIN fs

(***************************************************************************)
(* C9.                                                                     *)
(***************************************************************************)
\* C9: when the source path does not exist no file is ever written to the
\* output directory, the generation loop is never entered, and the run ends
\* with a nonzero exit code.
C9_MissingSourceWritesNothing ==
  ~source_exists
    => /\ DOMAIN fs = {}
       /\ pc \in {"click", "init", "load", "done"}
       /\ pc = "done" => exit_code \in {1, 2}

\* the generator was constructed on a missing source and ended the process
C9_Witness ==
  /\ ~source_exists
  /\ entry = "api"
  /\ dir_exists
  /\ pc = "done"
  /\ exit_code = 1

(***************************************************************************)
(* C10.                                                                    *)
(***************************************************************************)
\* C10: when the repeated invocation has ended, the output directory holds
\* the same files with the same contents as after the first one and the exit
\* code is the same (so a first run that succeeded is followed by a second
\* that succeeds); every file holds exactly one written chunk.
C10_RerunIdempotent ==
  /\ (run = 2 /\ pc = "done")
       => /\ fs = fs_first
          /\ exit_code = exit_first
  /\ \A n \in DOMAIN fs : Len(fs[n]) = 1

\* a repeated invocation that succeeded on a directory holding the first
\* run's icons and metadata
C10_Witness ==
  /\ run = 2
  /\ pc = "done"
  /\ exit_code = 0
  /\ exit_first = 0
  /\ INDEX_HTML \in DOMAIN fs_first
  /\ <<"i","c","o","n",".","i","c","o">> \in DOMAIN fs_first

(***************************************************************************)
(* C11.                                                                    *)
(***************************************************************************)
\* the name n holds the word w at some position
HasWord(n, w) ==
  \E a \in 1..Len(n) :
    /\ a + Len(w) - 1 <= Len(n)
    /\ \A b \in 1..Len(w) : n[a + b - 1] = w[b]

\* the number of the first rule of the classification table that matches
\* table entry i under the current prefix (0: none)
FirstRule(i) ==
  LET size == ICON_SIZES[i].size
      name == FileOf(i)
  IN CASE size = "ICO" -> 1
       [] size # "ICO" /\ size = "SVG" -> 2
       [] size \notin {"ICO", "SVG"}
          /\ (HasWord(name, APPLE)
              \/ size \in {"180x180", "167x167", "152x152", "120x120", "57x57",
                           "72x72", "114x114", "144x144", "150x150"}) -> 3
       [] size \notin {"ICO", "SVG"}
          /\ ~HasWord(name, APPLE)
          /\ size \in {"192x192", "512x512"} -> 4
       [] OTHER ->
          IF Len(name) >= Len(DOT_PNG)
             /\ \A b \in 1..Len(DOT_PNG) : name[Len(name) - Len(DOT_PNG) + b] = DOT_PNG[b]
          THEN 5 ELSE 0

\* the tag the classification table prescribes for rule r on entry i
RuleTag(r, i) ==
  CASE r = 1 -> [rel |-> "icon", type |-> "image/x-icon", sizes |-> "", href |-> FileOf(i)]
    [] r = 2 -> [rel |-> "icon", type |-> "image/svg+xml", sizes |-> "", href |-> FileOf(i)]
    [] r = 3 -> [rel |-> "apple-touch-icon", type |-> "",
                 sizes |-> ICON_SIZES[i].size, href |-> FileOf(i)]
    [] OTHER -> [rel |-> "icon", type |-> "image/png",
                 sizes |-> ICON_SIZES[i].size, href |-> FileOf(i)]

\* the selected, encoded entries among the first n of the table, in order
RECURSIVE GeneratedEntries(_)
GeneratedEntries(n) ==
  IF n <= 0 THEN << >>
  ELSE IF InSelection(ICON_SIZES[n], icon_options) /\ n \notin encoder_fails
  THEN Append(GeneratedEntries(n - 1), n)
  ELSE GeneratedEntries(n - 1)

\* C11: once index.html is written, the tag of every generated result is
\* the one of the first matching rule in the order ICO, SVG, apple (name
\* holds "apple" or size in the apple list), 192x192/512x512, name ending in
\* .png; some rule matches every entry, so each gets exactly one tag.
C11_FirstMatchingRule ==
  HtmlEmitted
    => LET gen == GeneratedEntries(Len(ICON_SIZES))
       IN /\ Len(HtmlTags) = Len(gen)
          /\ \A k \in 1..Len(gen) :
               /\ FirstRule(gen[k]) # 0
               /\ HtmlTags[k] = RuleTag(FirstRule(gen[k]), gen[k])

\* index.html written under the prefix apple with the 192x192 icon, which
\* matches the apple rule before the 192x192/512x512 rule
C11_Witness ==
  /\ HtmlEmitted
  /\ prefix = APPLE
  /\ \E k \in 1..Len(HtmlTags) :
       /\ HtmlTags[k].sizes = "192x192"
       /\ HtmlTags[k].rel = "apple-touch-icon"
  /\ \E k \in 1..Len(HtmlTags) : HtmlTags[k].type = "image/x-icon"

(***************************************************************************)
(* C12 (the statement as given fails; the amended statement holds).        *)
(***************************************************************************)
\* the "apple" condition of the third rule is true of a generated PNG result
AppleSubstringFires ==
  \E k \in 1..Len(generated_icons) :
    /\ generated_icons[k].generated
    /\ generated_icons[k].size \notin {"ICO", "SVG"}
    /\ HasWord(generated_icons[k].actual_filename, APPLE)

\* the tags of index.html for the 192x192 and 512x512 icons are image/png
\* icon links
ManifestSizesArePngLinks ==
  \A k \in 1..Len(HtmlTags) :
    HtmlTags[k].sizes \in {"192x192", "512x512"}
      => /\ HtmlTags[k].rel = "icon"
         /\ HtmlTags[k].type = "image/png"

\* C12, as stated: in no run, whatever the prefix, is the "apple" condition
\* true of a generated result, and the 192x192 and 512x512 icons are always
\* emitted as image/png icon links.
C12_AppleRuleNeverFires ==
  /\ ~AppleSubstringFires
  /\ HtmlEmitted => ManifestSizesArePngLinks

\* C12, amended: the "apple" condition is true of a generated result only
\* when the configured prefix itself holds "apple", and then of every
\* generated PNG result; with a prefix that does not hold "apple" the
\* 192x192 and 512x512 icons are emitted as image/png icon links.
C12_AppleRuleOnlyByPrefix ==
  /\ AppleSubstringFires => HasWord(prefix, APPLE)
  /\ HasWord(prefix, APPLE)
       => \A k \in 1..Len(generated_icons) :
            HasWord(generated_icons[k].actual_filename, APPLE)
  /\ (HtmlEmitted /\ ~HasWord(prefix, APPLE)) => ManifestSizesArePngLinks

\* index.html written under the default prefix with the 192x192 icon as an
\* image/png icon link and an apple-touch-icon chosen by its size
C12_Witness ==
  /\ HtmlEmitted
  /\ ~HasWord(prefix, APPLE)
  /\ ~AppleSubstringFires
  /\ \E k \in 1..Len(HtmlTags) :
       /\ HtmlTags[k].sizes = "192x192"
       /\ HtmlTags[k].type = "image/png"
  /\ \E k \in 1..Len(HtmlTags) : HtmlTags[k].rel = "apple-touch-icon"

(***************************************************************************)
(* C13.                                                                    *)
(***************************************************************************)
\* the table positions of kind s
OfKind(s) ==
  {i \in TableIndex : ICON_SIZES[i].size = s}

\* the table positions of the pixel-size entries
PixelEntries ==
  {i \in TableIndex : ICON_SIZES[i].size \notin {"ICO", "SVG"}}

\* the properties of the table itself
TableWellFormed ==
  /\ \A i, j \in TableIndex :
       ICON_SIZES[i].filename = ICON_SIZES[j].filename => i = j
  /\ \A i \in TableIndex :
       /\ Len(ICON_SIZES[i].filename) >= Len(FAVICON)
       /\ \A b \in 1..Len(FAVICON) : ICON_SIZES[i].filename[b] = FAVICON[b]
  /\ Cardinality(OfKind("ICO")) = 1
  /\ Cardinality(OfKind("SVG")) = 1
  /\ \A i \in PixelEntries :
       /\ HasWord(ICON_SIZES[i].filename, DOT_PNG)
       /\ SubSeq(ICON_SIZES[i].filename,
                 Len(ICON_SIZES[i].filename) - Len(DOT_PNG) + 1,
                 Len(ICON_SIZES[i].filename)) = DOT_PNG
  /\ \A i, j \in PixelEntries :
       ICON_SIZES[i].size = ICON_SIZES[j].size => i = j
  /\ \A i \in TableIndex :
       ICON_SIZES[i].option \in {"Required", "Recommended", "Optional", "Legacy"}

\* C13: in the icon table that the loop walks (its position never leaves
\* the table) the canonical filenames are pairwise distinct and each starts
\* with "favicon"; exactly one entry is of kind ICO and exactly one of kind
\* SVG; the remaining entries are PNG targets (name ending in .png) of
\* pairwise distinct sizes; every tier is one of Required, Recommended,
\* Optional, Legacy.
C13_TableWellFormed ==
  /\ idx \in 0..(Len(ICON_SIZES) + 1)
  /\ TableWellFormed

\* a pass over the whole table that recorded every entry, among them the
\* one ICO and the one SVG entry
C13_Witness ==
  /\ PassComplete
  /\ Len(generated_icons) = Len(ICON_SIZES)
  /\ Cardinality({k \in 1..Len(generated_icons) :
                    generated_icons[k].size = "ICO"}) = 1
  /\ Cardinality({k \in 1..Len(generated_icons) :
                    generated_icons[k].size = "SVG"}) = 1
  /\ Cardinality({generated_icons[k].actual_filename :
                    k \in 1..Len(generated_icons)}) = Len(ICON_SIZES)

(***************************************************************************)
(* C14.                                                                    *)
(***************************************************************************)
\* the paths that get_filename gives the table entries under the prefix
EffectiveNames ==
  {get_filename(ICON_SIZES[i], prefix) : i \in TableIndex}

\* the number of metadata files written so far in this invocation
MetadataWritten ==
  (IF HtmlEmitted THEN 1 ELSE 0) + (IF ManifestEmitted THEN 1 ELSE 0)

\* C14: for the prefix in use (checked where the generator is constructed
\* or get_filename is called) the effective filenames of the table entries
\* are pairwise distinct and none is index.html or site.webmanifest; the
\* results of one invocation carry pairwise distinct paths, and in the
\* first invocation the directory holds one file per successful write, so
\* no output overwrote another.
C14_OutputsNeverCollide ==
  /\ pc \in {"init", "call"}
       => /\ Cardinality(EffectiveNames) = Len(ICON_SIZES)
          /\ INDEX_HTML \notin EffectiveNames
          /\ SITE_WEBMANIFEST \notin EffectiveNames
  /\ Cardinality({generated_icons[k].actual_filename :
                    k \in 1..Len(generated_icons)}) = Len(generated_icons)
  /\ run = 1 => Cardinality(DOMAIN fs) = GeneratedCount + MetadataWritten

\* a first invocation that wrote all icons and both metadata files
C14_Witness ==
  /\ run = 1
  /\ pc = "done"
  /\ exit_code = 0
  /\ GeneratedCount = Len(ICON_SIZES)
  /\ Cardinality(DOMAIN fs) = Len(ICON_SIZES) + 2

(***************************************************************************)
(* C15.                                                                    *)
(***************************************************************************)
\* the encoding of an ICO or SVG entry was seen to fail
UnguardedFailure ==
  \E i \in encoder_fails : ICON_SIZES[i].size \in {"ICO", "SVG"}

\* the file n is as the first invocation left it (absent in the first one)
AsBeforeThisRun(n) ==
  IF n \in DOMAIN fs_first
  THEN n \in DOMAIN fs /\ fs[n] = fs_first[n]
  ELSE n \notin DOMAIN fs

\* C15: an invocation whose source cannot be loaded or in which an ICO or
\* SVG encoding fails ends with a nonzero exit code; an invocation that has
\* ended with a nonzero exit code has run neither the metadata emitter
\* (index.html and site.webmanifest are as they were before it) nor the
\* summary table, and the icon files it wrote before the error are still in
\* the output directory.
C15_FatalSkipsEmitter ==
  /\ (entry \in {"cli", "api"} /\ pc = "done" /\ (~SourceValid \/ UnguardedFailure))
       => exit_code \in {1, 2}
  /\ (pc = "done" /\ exit_code # 0)
       => /\ ~SourceValid \/ UnguardedFailure
          /\ ~summary_printed
          /\ AsBeforeThisRun(INDEX_HTML)
          /\ AsBeforeThisRun(SITE_WEBMANIFEST)
          /\ \A k \in 1..Len(generated_icons) :
               generated_icons[k].generated
                 => generated_icons[k].actual_filename \in DOMAIN fs

\* a run ended by a failing SVG encoding after the ICO bundle and the
\* 16x16 PNG were written
C15_Witness ==
  /\ pc = "done"
  /\ exit_code = 1
  /\ run = 1
  /\ \E i \in encoder_fails : ICON_SIZES[i].size = "SVG"
  /\ Len(generated_icons) = 2
  /\ Cardinality(DOMAIN fs) = 2
  /\ ~summary_printed

====
